---- MODULE Spec2Model ----
(***************************************************************************)
(* The mock backend of the asset-management application                    *)
(* (src/unnamed/part_003, with the seed data of src/unnamed/part_000 and   *)
(* the types of src/unnamed/part_002) as a state machine.                  *)
(*                                                                         *)
(* The store is the browser's localStorage: one table per key.  Every      *)
(* exported operation is `await delay(ms)` followed by a synchronous body  *)
(* (getDB, mutate, saveDB).  JavaScript runs one callback at a time, so a  *)
(* call is two steps: Invoke (delay starts: activeRequests++) and the      *)
(* completion (the timer fires: activeRequests--, then the body runs to    *)
(* its end or to its throw without interleaving).  Calls whose delays      *)
(* overlap are in `inflight` together.                                     *)
(***************************************************************************)
EXTENDS Integers, Sequences, FiniteSets, Bags, TLC

VARIABLES
  users,          \* localStorage[KEY_USERS]
  assets,         \* localStorage[KEY_ASSETS]
  requests,       \* localStorage[KEY_REQUESTS]
  deployments,    \* localStorage[KEY_DEPLOYMENTS]
  notifications,  \* localStorage[KEY_NOTIFICATIONS]
  session,        \* localStorage[KEY_SESSION]
  now,            \* Date.now(), in ticks since the module was loaded
  inflight,       \* the calls whose delay() timer has not fired yet (a bag:
                  \* the same call may be in flight more than once)
  activeRequests, \* the in-flight counter of delay()
  invoked,        \* how many calls have been made so far
  settled,        \* the calls that have completed, the latest first, each with
                  \* how its promise settled
  loadingListener,\* the listener subscribeToLoading has stored (null: none)
  loading         \* what the listener was last called with: the `loading`
                  \* state of GlobalLoadingBar, false to begin with

vars == <<users, assets, requests, deployments, notifications, session,
          now, inflight, activeRequests, invoked, settled,
          loadingListener, loading>>

store == <<users, assets, requests, deployments, notifications, session>>

----------------------------------------------------------------------------
(* Bounds of the model *)

\* The callers make at most this many calls in a run.  Any number of them may
\* be in flight together, and the clock advances at most once per callback.
MaxCalls == 2

----------------------------------------------------------------------------
(* Values *)

\* A field that the TypeScript object does not have (an optional field unset).
Undefined == "undefined"

\* new Date(ms).toISOString(): the text of a clock value.
ISO(t) == "T+" \o ToString(t)

\* The decimal text Date.now() contributes to an id.  Real clock values are
\* 13-digit numbers, so no generated id equals a seed id such as 'req-1'.
Stamp(t) == "170000000000" \o ToString(t)

\* String.prototype.toLowerCase on the ASCII letters.
UpperCaseLetters == "ABCDEFGHIJKLMNOPQRSTUVWXYZ"
LowerCaseLetters == "abcdefghijklmnopqrstuvwxyz"

LowerChar(ch) ==
  IF \E k \in 1..Len(UpperCaseLetters) : SubSeq(UpperCaseLetters, k, k) = ch
  THEN LET k == CHOOSE k \in 1..Len(UpperCaseLetters) :
                  SubSeq(UpperCaseLetters, k, k) = ch
       IN SubSeq(LowerCaseLetters, k, k)
  ELSE ch

RECURSIVE toLowerCase(_)
toLowerCase(s) ==
  IF Len(s) = 0 THEN ""
  ELSE LowerChar(SubSeq(s, 1, 1)) \o toLowerCase(SubSeq(s, 2, Len(s)))

RECURSIVE Join(_)
\* names.join(', ')
Join(names) ==
  IF Len(names) = 0 THEN ""
  ELSE IF Len(names) = 1 THEN names[1]
  ELSE names[1] \o ", " \o Join(Tail(names))

RECURSIVE Filter(_, _)
\* array.filter(pred), pred given as the set of elements that pass
Filter(arr, keep) ==
  IF Len(arr) = 0 THEN <<>>
  ELSE (IF arr[1] \in keep THEN <<arr[1]>> ELSE <<>>) \o Filter(Tail(arr), keep)

Range(arr) == {arr[i] : i \in 1..Len(arr)}

\* array.findIndex(r => r.id === id): the first index, 0 for -1
FindIndex(arr, id) ==
  IF \E i \in 1..Len(arr) : arr[i].id = id
  THEN CHOOSE i \in 1..Len(arr) :
         arr[i].id = id /\ \A j \in 1..(i - 1) : arr[j].id # id
  ELSE 0

----------------------------------------------------------------------------
(* Types (src/unnamed/part_002) *)

UserRole == {"ADMIN", "USER", "GUARD"}

RequestStatus ==
  {"PENDING", "APPROVED", "REJECTED", "CHECKED_OUT", "RETURNED", "CANCELLED"}

AssetStatus == {"AVAILABLE", "IN_USE", "MAINTENANCE", "DEPLOYED"}

----------------------------------------------------------------------------
(* Seed data (src/unnamed/part_000) *)

MOCK_USERS == <<
  [id |-> "u-1", name |-> "Admin User", email |-> "admin@e9ogral.com",
   role |-> "ADMIN", isActive |-> TRUE, department |-> "IT Operations",
   phoneNumber |-> "+1-555-0101"],
  [id |-> "u-2", name |-> "John Employee", email |-> "john@e9ogral.com",
   role |-> "USER", isActive |-> TRUE, department |-> "Sales",
   phoneNumber |-> "+1-555-0102"],
  [id |-> "u-3", name |-> "Sarah Guard", email |-> "guard@e9ogral.com",
   role |-> "GUARD", isActive |-> TRUE, department |-> "Security",
   phoneNumber |-> "+1-555-0199"] >>

\* imageUrl and description are display text and are left out.
MOCK_ASSETS == <<
  [id |-> "a-1", name |-> "MacBook Pro 16", serialNumber |-> "MBP-2024-X99",
   category |-> "Laptop", status |-> "AVAILABLE"],
  [id |-> "a-2", name |-> "Dell XPS 15", serialNumber |-> "DELL-5520-B21",
   category |-> "Laptop", status |-> "AVAILABLE"],
  [id |-> "a-3", name |-> "Sony Alpha Camera", serialNumber |-> "SNY-CAM-001",
   category |-> "Camera", status |-> "IN_USE"],
  [id |-> "a-4", name |-> "Projector 4K", serialNumber |-> "EPS-PROJ-882",
   category |-> "Equipment", status |-> "AVAILABLE"],
  [id |-> "a-5", name |-> "Cisco Router 2900", serialNumber |-> "CSC-2900-881",
   category |-> "Network", status |-> "DEPLOYED"],
  [id |-> "a-6", name |-> "Dell PowerEdge", serialNumber |-> "DEL-PE-7721",
   category |-> "Server", status |-> "DEPLOYED"] >>

MOCK_DEPLOYMENTS == <<
  [id |-> "dep-1", clientName |-> "Acme Corp",
   items |-> <<MOCK_ASSETS[5]>>, deploymentDate |-> "2023-11-15",
   deployedBy |-> "u-1"],
  [id |-> "dep-2", clientName |-> "TechStart Inc",
   items |-> <<MOCK_ASSETS[6], MOCK_ASSETS[4]>>,
   deploymentDate |-> "2024-01-10", deployedBy |-> "u-1"] >>

\* A Request object with only the fields createRequest gives it; every
\* optional field of the interface is Undefined until an operation sets it.
BlankRequest(id, user, itemIds, items, status, requestDate, returnDate, purpose) ==
  [id |-> id, userId |-> user.id, user |-> user,
   itemIds |-> itemIds, items |-> items,
   status |-> status, requestDate |-> requestDate, returnDate |-> returnDate,
   purpose |-> purpose, evidenceUrl |-> Undefined,
   approvedBy |-> Undefined, approvedAt |-> Undefined,
   rejectionReason |-> Undefined,
   cancellationNote |-> Undefined, cancelledAt |-> Undefined,
   actualReturnDate |-> Undefined, returnEvidenceUrl |-> Undefined,
   missingItemsReport |-> Undefined,
   gateVerified |-> FALSE, gateVerifiedBy |-> Undefined,
   gateVerifiedAt |-> Undefined, gateComment |-> Undefined,
   gatePassCode |-> Undefined]

\* The seed's dates are computed when the module is loaded (clock value 0).
MOCK_REQUESTS == <<
  [BlankRequest("req-1", MOCK_USERS[2], <<"a-3">>, <<MOCK_ASSETS[3]>>,
                "APPROVED", ISO(0), "T+3d", "Product photo shoot")
     EXCEPT !.approvedBy = "u-1", !.approvedAt = ISO(0),
            !.gatePassCode = "GP-9123"],
  BlankRequest("req-2", MOCK_USERS[2], <<"a-1">>, <<MOCK_ASSETS[1]>>,
               "PENDING", ISO(0), "T+7d", "My laptop is broken, need loaner"),
  [BlankRequest("req-3", MOCK_USERS[2], <<"a-2">>, <<MOCK_ASSETS[2]>>,
                "REJECTED", "T-5d", "T+2d", "Gaming test")
     EXCEPT !.approvedBy = "u-1",
            !.rejectionReason = "Not business critical"] >>

----------------------------------------------------------------------------
(* The state after the module is loaded: initializeDB on an empty          *)
(* localStorage, no session, no call in flight.                            *)

NoRequest == [id |-> Undefined]

\* getSession() returning null.
NoSession == [id |-> Undefined]

Init ==
  /\ users = MOCK_USERS
  /\ assets = MOCK_ASSETS
  /\ requests = MOCK_REQUESTS
  /\ deployments = MOCK_DEPLOYMENTS
  /\ notifications = <<>>
  /\ session = NoSession
  /\ now = 0
  /\ inflight = EmptyBag
  /\ activeRequests = 0
  /\ invoked = 0
  /\ settled = <<>>
  /\ loadingListener = Undefined
  /\ loading = FALSE

----------------------------------------------------------------------------
(* Inputs: the arguments the callers pass, drawn from small sets *)

\* The ids of the stored requests.
ReqIdInputs == {requests[i].id : i \in 1..Len(requests)}

\* The status argument of updateRequestStatus with its reason: the two calls
\* of AdminApprovals (handleApprove passes no reason).
DecideInputs == {<<"APPROVED", Undefined>>, <<"REJECTED", "budget">>}

\* The adminId argument: the seed's administrator (the id AdminApprovals
\* passes) and a user whose role is USER.
AdminIdInputs == {"u-1", "u-2"}

\* Math.floor(1000 + Math.random() * 9000) lies in 1000..9999; the draws the
\* model follows are the least value and the value of the seed's req-1.
GateCodeDraws == {"GP-1000", "GP-9123"}

GuardIdInputs == {"u-3"}
GateCommentInputs == {"Verified at gate"}
IssueCommentInputs == {"Seal broken"}
CancelNoteInputs == {"Changed plans"}
\* The user on whose behalf cancelRequest is called (the function takes no
\* caller and reads no session): the seed requests' owner and another user.
CallerInputs == {"u-2", "u-1"}
MissingReportInputs == {Undefined, "Charger missing"}
RequesterInputs == {"u-2", "u-0"}
\* The assetIds argument: an AVAILABLE asset, two assets of which a-1 is in
\* the PENDING req-2, the IN_USE a-3, and no asset at all.
AssetIdsInputs == {<<"a-2">>, <<"a-4", "a-1">>, <<"a-3">>, <<>>}

CallInputs ==
     {[op |-> "createRequest", userId |-> u, assetIds |-> a,
       purpose |-> "Client demo", returnDate |-> "T+1d", evidenceFile |-> Undefined] :
        u \in RequesterInputs, a \in AssetIdsInputs}
\cup {[op |-> "updateRequestStatus", reqId |-> r, status |-> d[1],
       reason |-> d[2], adminId |-> a] :
        r \in ReqIdInputs, d \in DecideInputs, a \in AdminIdInputs}
\cup {[op |-> "cancelRequest", reqId |-> r, note |-> n, caller |-> u] :
        r \in ReqIdInputs, n \in CancelNoteInputs, u \in CallerInputs}
\cup {[op |-> "submitAssetReturn", reqId |-> r, evidenceFile |-> Undefined,
       missingItemsReport |-> m] :
        r \in ReqIdInputs, m \in MissingReportInputs}
\cup {[op |-> "verifyGatePass", reqId |-> r, guardId |-> g, comment |-> c] :
        r \in ReqIdInputs, g \in GuardIdInputs, c \in GateCommentInputs}
\cup {[op |-> "reportGateIssue", reqId |-> r, guardId |-> g, comment |-> c] :
        r \in ReqIdInputs, g \in GuardIdInputs, c \in IssueCommentInputs}

----------------------------------------------------------------------------
(* delay() and the clock *)

\* A notifyLoading that reports loading only from the second call in flight.
notifyLoadingFromSecond(count) ==
  /\ loading' = IF loadingListener # Undefined THEN count > 1 ELSE loading
  /\ UNCHANGED loadingListener

\* notifyLoading(), with the value activeRequests has when it is called.
notifyLoading(count) ==
  /\ loading' = IF loadingListener # Undefined THEN count > 0 ELSE loading
  /\ UNCHANGED loadingListener

\* An exported operation is called: it runs up to `await delay(ms)`, whose
\* synchronous part counts the call in.
Invoke ==
  /\ invoked < MaxCalls
  /\ \E call \in CallInputs : inflight' = inflight (+) SetToBag({call})
  /\ activeRequests' = activeRequests + 1
  /\ notifyLoading(activeRequests + 1)
  /\ invoked' = invoked + 1
  /\ UNCHANGED <<store, now, settled>>

\* The clock values at which a timer may fire: Date.now() never goes back,
\* and two callbacks may run within the same millisecond.
FiringTimes == {now, now + 1}

\* A timer that waits for every other call in flight to finish first.
TimerFiresInTurn(c, op) ==
  /\ BagIn(c, inflight)
  /\ c.op = op
  /\ activeRequests = 1
  /\ now' \in FiringTimes
  /\ inflight' = inflight (-) SetToBag({c})
  /\ activeRequests' = activeRequests - 1
  /\ notifyLoading(activeRequests - 1)
  /\ UNCHANGED invoked

\* The timer of delay() fires for an in-flight call c of operation op: the
\* callback counts the call out and resolves the promise, and the operation's
\* body follows as the continuation with nothing in between, reading now' as
\* Date.now().
TimerFires(c, op) ==
  /\ BagIn(c, inflight)
  /\ c.op = op
  /\ now' \in FiringTimes
  /\ inflight' = inflight (-) SetToBag({c})
  /\ activeRequests' = activeRequests - 1
  /\ notifyLoading(activeRequests - 1)
  /\ UNCHANGED invoked

\* What the caller of c gets: the outcome ("ok" for a fulfilled promise, the
\* Error's message for a rejected one), with the addressed request as it was
\* stored before the body ran (NoRequest when there is none).
Settled(c, outcome, before) ==
  settled' = <<[call |-> c, outcome |-> outcome, before |-> before]>> \o settled

\* A throw that comes after a notification has been saved.
ThrowAfterNotice(c, message, before) ==
  /\ Settled(c, message, before)
  /\ notifications' = <<[id |-> "n-" \o Stamp(now'), userId |-> "u-1",
                         message |-> message, read |-> FALSE,
                         createdAt |-> ISO(now'), type |-> "INFO"]>>
                      \o notifications
  /\ UNCHANGED <<users, assets, requests, deployments, session>>

\* throw new Error(message): the promise is rejected, nothing was saved.
Throw(c, message, before) ==
  /\ Settled(c, message, before)
  /\ UNCHANGED store

\* return: the promise is fulfilled.
Return(c, before) == Settled(c, "ok", before)

----------------------------------------------------------------------------
(* Notifications *)

\* createNotification(userId, message) at clock value t, on the table n.
createNotification(n, userId, message, t) ==
  <<[id |-> "n-" \o Stamp(t), userId |-> userId, message |-> message,
     read |-> FALSE, createdAt |-> ISO(t), type |-> "INFO"]>> \o n

\* req.items.map(i => i.name).join(', ')
AssetNames(items) == Join([i \in 1..Len(items) |-> items[i].name])

----------------------------------------------------------------------------
(* Requests *)

\* users.find(u => u.id === userId): the index, 0 for undefined
FindUser(userId) == FindIndex(users, userId)

createRequest(c) ==
  /\ TimerFires(c, "createRequest")
  /\ LET u == FindUser(c.userId)
         selectedAssets ==
           Filter(assets, {a \in Range(assets) : a.id \in Range(c.assetIds)})
     IN IF u = 0 \/ Len(selectedAssets) = 0
        THEN Throw(c, "Invalid user or no assets selected", NoRequest)
        ELSE LET newRequest ==
                   [BlankRequest("req-" \o Stamp(now'), users[u], c.assetIds,
                                 selectedAssets, "PENDING", ISO(now'),
                                 c.returnDate, c.purpose)
                      EXCEPT !.userId = c.userId,
                             !.evidenceUrl = IF c.evidenceFile = Undefined
                                             THEN Undefined ELSE "blob:request"]
             IN /\ requests' = <<newRequest>> \o requests
                /\ notifications' =
                     createNotification(notifications, c.userId,
                       "Request submitted for " \o AssetNames(selectedAssets), now')
                /\ Return(c, NoRequest)
                /\ UNCHANGED <<users, assets, deployments, session>>

\* updateRequestStatus approving without minting a gate pass code.
DecidedWithoutCode(req, status, reason, adminId, code, t) ==
  LET r == [req EXCEPT !.status = status]
  IN IF status = "APPROVED"
     THEN [r EXCEPT !.approvedBy = adminId, !.approvedAt = ISO(t)]
     ELSE IF status = "REJECTED"
     THEN [r EXCEPT !.rejectionReason = reason, !.approvedBy = adminId,
                    !.approvedAt = ISO(t)]
     ELSE r

\* The request object after lines 253-267 of updateRequestStatus.
Decided(req, status, reason, adminId, code, t) ==
  LET r == [req EXCEPT !.status = status]
  IN IF status = "APPROVED"
     THEN [r EXCEPT !.approvedBy = adminId, !.approvedAt = ISO(t),
                    !.gatePassCode = code]
     ELSE IF status = "REJECTED"
     THEN [r EXCEPT !.rejectionReason = reason, !.approvedBy = adminId,
                    !.approvedAt = ISO(t)]
     ELSE r

\* The notification of lines 261 and 266, for the request as decided.
DecisionNotified(n, req, reason, t) ==
  IF req.status = "APPROVED"
  THEN createNotification(n, req.userId,
         "Your request for " \o AssetNames(req.items)
           \o " has been APPROVED. Gate Pass: " \o req.gatePassCode, t)
  ELSE IF req.status = "REJECTED"
  THEN createNotification(n, req.userId,
         "Your request for " \o AssetNames(req.items)
           \o " was REJECTED. Reason: " \o reason, t)
  ELSE n

updateRequestStatus(c) ==
  /\ TimerFires(c, "updateRequestStatus")
  /\ LET idx == FindIndex(requests, c.reqId)
     IN IF idx = 0
        THEN Throw(c, "Request not found", NoRequest)
        ELSE \E code \in GateCodeDraws :
               LET req == Decided(requests[idx], c.status, c.reason,
                                  c.adminId, code, now')
               IN /\ requests' = [requests EXCEPT ![idx] = req]
                  /\ notifications' =
                       DecisionNotified(notifications, req, c.reason, now')
                  /\ Return(c, requests[idx])
                  /\ UNCHANGED <<users, assets, deployments, session>>

\* The request object after lines 284-286 of cancelRequest.
Cancelled(req, note, t) ==
  [req EXCEPT !.status = "CANCELLED", !.cancellationNote = note,
              !.cancelledAt = ISO(t)]

cancelRequest(c) ==
  /\ TimerFires(c, "cancelRequest")
  /\ LET idx == FindIndex(requests, c.reqId)
     IN IF idx = 0
        THEN Throw(c, "Request not found", NoRequest)
        ELSE IF requests[idx].status # "PENDING"
        THEN Throw(c, "Only pending requests can be cancelled", requests[idx])
        ELSE /\ requests' = [requests EXCEPT ![idx] = Cancelled(@, c.note, now')]
             /\ Return(c, requests[idx])
             /\ UNCHANGED <<users, assets, deployments, notifications, session>>

\* The request object after lines 301-307 of submitAssetReturn.
Returned(req, evidenceFile, missingItemsReport, t) ==
  [req EXCEPT !.status = "RETURNED", !.actualReturnDate = ISO(t),
              !.missingItemsReport = missingItemsReport,
              !.returnEvidenceUrl = IF evidenceFile = Undefined
                                    THEN @ ELSE "blob:return"]

submitAssetReturn(c) ==
  /\ TimerFires(c, "submitAssetReturn")
  /\ LET idx == FindIndex(requests, c.reqId)
     IN IF idx = 0
        THEN Throw(c, "Request not found", NoRequest)
        ELSE LET req == Returned(requests[idx], c.evidenceFile,
                                 c.missingItemsReport, now')
                 msg == "Assets returned for Request #" \o req.id
             IN /\ requests' = [requests EXCEPT ![idx] = req]
                /\ notifications' =
                     createNotification(notifications, req.userId,
                       IF c.missingItemsReport # Undefined
                       THEN msg \o " (With missing items report)" ELSE msg, now')
                /\ Return(c, requests[idx])
                /\ UNCHANGED <<users, assets, deployments, session>>

----------------------------------------------------------------------------
(* Gate verification *)

\* A guard that lets a request not yet decided through the gate as well.
GateEligibleOrPending(req) ==
  req.status = "APPROVED" \/ req.status = "CHECKED_OUT" \/ req.status = "PENDING"

\* The guard of line 329 of verifyGatePass.
GateEligible(req) == req.status = "APPROVED" \/ req.status = "CHECKED_OUT"

\* verifyGatePass recording the guard and the time but not the flag.
VerifiedWithoutFlag(req, guardId, comment, t) ==
  [req EXCEPT !.gateVerifiedBy = guardId, !.gateVerifiedAt = ISO(t),
              !.gateComment = comment]

\* The request object after lines 333-336 of verifyGatePass.
Verified(req, guardId, comment, t) ==
  [req EXCEPT !.gateVerified = TRUE, !.gateVerifiedBy = guardId,
              !.gateVerifiedAt = ISO(t), !.gateComment = comment]

\* verifyGatePass booking the request's assets out as IN_USE as well.
verifyGatePassBookingOut(c) ==
  /\ TimerFires(c, "verifyGatePass")
  /\ LET idx == FindIndex(requests, c.reqId)
     IN IF idx = 0
        THEN Throw(c, "Request not found", NoRequest)
        ELSE IF ~GateEligible(requests[idx])
        THEN Throw(c, "Cannot verify gate pass for unapproved requests",
                   requests[idx])
        ELSE LET req == Verified(requests[idx], c.guardId, c.comment, now')
             IN /\ requests' = [requests EXCEPT ![idx] = req]
                /\ assets' =
                     [a \in 1..Len(assets) |->
                        IF assets[a].id \in Range(req.itemIds)
                        THEN [assets[a] EXCEPT !.status = "IN_USE"]
                        ELSE assets[a]]
                /\ notifications' =
                     createNotification(
                       createNotification(notifications, req.userId,
                         "Gate Pass Verified. You may now take the items.", now'),
                       "u-1",
                       "Gate verified by Guard for Request #" \o req.id, now')
                /\ Return(c, requests[idx])
                /\ UNCHANGED <<users, deployments, session>>

verifyGatePass(c) ==
  /\ TimerFires(c, "verifyGatePass")
  /\ LET idx == FindIndex(requests, c.reqId)
     IN IF idx = 0
        THEN Throw(c, "Request not found", NoRequest)
        ELSE IF ~GateEligible(requests[idx])
        THEN Throw(c, "Cannot verify gate pass for unapproved requests",
                   requests[idx])
        ELSE LET req == Verified(requests[idx], c.guardId, c.comment, now')
             IN /\ requests' = [requests EXCEPT ![idx] = req]
                /\ notifications' =
                     createNotification(
                       createNotification(notifications, req.userId,
                         "Gate Pass Verified. You may now take the items.", now'),
                       "u-1",
                       "Gate verified by Guard for Request #" \o req.id, now')
                /\ Return(c, requests[idx])
                /\ UNCHANGED <<users, assets, deployments, session>>

\* reportGateIssue taking the request out of the approved state as well.
IssueReportedAsRejection(req, guardId, comment, t) ==
  [req EXCEPT !.status = "REJECTED", !.gateVerified = FALSE,
              !.gateVerifiedBy = guardId,
              !.gateComment = "[ISSUE REPORTED]: " \o comment,
              !.gateVerifiedAt = ISO(t)]

\* The request object after lines 357-361 of reportGateIssue.
IssueReported(req, guardId, comment, t) ==
  [req EXCEPT !.gateVerified = FALSE, !.gateVerifiedBy = guardId,
              !.gateComment = "[ISSUE REPORTED]: " \o comment,
              !.gateVerifiedAt = ISO(t)]

reportGateIssue(c) ==
  /\ TimerFires(c, "reportGateIssue")
  /\ LET idx == FindIndex(requests, c.reqId)
     IN IF idx = 0
        THEN Throw(c, "Request not found", NoRequest)
        ELSE LET req == IssueReported(requests[idx], c.guardId, c.comment, now')
             IN /\ requests' = [requests EXCEPT ![idx] = req]
                /\ notifications' =
                     createNotification(
                       createNotification(notifications, req.userId,
                         "ISSUE AT GATE: " \o c.comment
                           \o ". Please contact security.", now'),
                       "u-1",
                       "Guard reported issue for Request #" \o req.id
                         \o ": " \o c.comment, now')
                /\ Return(c, requests[idx])
                /\ UNCHANGED <<users, assets, deployments, session>>

----------------------------------------------------------------------------
(* The backend under concurrent callers *)

Next ==
  \/ Invoke
  \/ \E c \in BagToSet(inflight) : createRequest(c)
  \/ \E c \in BagToSet(inflight) : updateRequestStatus(c)
  \/ \E c \in BagToSet(inflight) : cancelRequest(c)
  \/ \E c \in BagToSet(inflight) : submitAssetReturn(c)
  \/ \E c \in BagToSet(inflight) : verifyGatePass(c)
  \/ \E c \in BagToSet(inflight) : reportGateIssue(c)

Spec == Init /\ [][Next]_vars

----------------------------------------------------------------------------
(* Two scenarios of the same backend, with the callers scripted *)

\* The calls of AdminApprovals on a stored request.
DecideCalls == {c \in CallInputs : c.op = "updateRequestStatus"}

\* A decision is submitted while no call has settled yet: every call of
\* such a run is in flight together with every other.
InvokeRacing ==
  /\ invoked < MaxCalls
  /\ settled = <<>>
  /\ \E call \in DecideCalls : inflight' = inflight (+) SetToBag({call})
  /\ activeRequests' = activeRequests + 1
  /\ notifyLoading(activeRequests + 1)
  /\ invoked' = invoked + 1
  /\ UNCHANGED <<store, now, settled>>

NextRace ==
  \/ InvokeRacing
  \/ \E c \in BagToSet(inflight) : updateRequestStatus(c)

\* Decisions whose delays all overlap.
SpecRace == Init /\ [][NextRace]_vars

\* The reason argument of a rejection: none, the empty string, a reason.
RejectReasonInputs == {Undefined, "", "budget"}

\* Rejections of a stored request, as any caller of the backend may make
\* them (AdminApprovals.confirmReject sends only a non-empty reason).
RejectCalls ==
  {[op |-> "updateRequestStatus", reqId |-> r, status |-> "REJECTED",
    reason |-> x, adminId |-> a] :
     r \in ReqIdInputs, x \in RejectReasonInputs, a \in AdminIdInputs}

InvokeReject ==
  /\ invoked < MaxCalls
  /\ \E call \in RejectCalls : inflight' = inflight (+) SetToBag({call})
  /\ activeRequests' = activeRequests + 1
  /\ notifyLoading(activeRequests + 1)
  /\ invoked' = invoked + 1
  /\ UNCHANGED <<store, now, settled>>

NextReject ==
  \/ InvokeReject
  \/ \E c \in BagToSet(inflight) : updateRequestStatus(c)

\* Rejections with and without a reason.
SpecReject == Init /\ [][NextReject]_vars

\* More assetIds arguments of createRequest: an id given twice, and an id
\* of no asset beside a good one.
SubmitAssetIdsInputs ==
  AssetIdsInputs \cup {<<"a-2", "a-2">>, <<"a-2", "a-9">>}

SubmitCalls ==
  {[op |-> "createRequest", userId |-> u, assetIds |-> a,
    purpose |-> "Client demo", returnDate |-> "T+1d", evidenceFile |-> Undefined] :
     u \in RequesterInputs, a \in SubmitAssetIdsInputs}

InvokeSubmit ==
  /\ invoked < MaxCalls
  /\ \E call \in SubmitCalls : inflight' = inflight (+) SetToBag({call})
  /\ activeRequests' = activeRequests + 1
  /\ notifyLoading(activeRequests + 1)
  /\ invoked' = invoked + 1
  /\ UNCHANGED <<store, now, settled>>

NextSubmit ==
  \/ InvokeSubmit
  \/ \E c \in BagToSet(inflight) : createRequest(c)

\* Submissions with any list of asset ids.
SpecSubmit == Init /\ [][NextSubmit]_vars

\* One caller at a time works through submit, approve, verify, return on the
\* request it submitted: a step is called when the step before it has
\* fulfilled its promise.  createRequest puts the new request first.
ScriptStep(k) ==
  /\ invoked = k - 1
  /\ Len(settled) = k - 1
  /\ k > 1 => settled[1].outcome = "ok"

Script(call) ==
  /\ inflight' = inflight (+) SetToBag({call})
  /\ activeRequests' = activeRequests + 1
  /\ notifyLoading(activeRequests + 1)
  /\ invoked' = invoked + 1
  /\ UNCHANGED <<store, now, settled>>

ScriptSubmit ==
  /\ ScriptStep(1)
  /\ \E u \in Range(users), a \in {<<"a-2">>, <<"a-4", "a-1">>} :
       Script([op |-> "createRequest", userId |-> u.id, assetIds |-> a,
               purpose |-> "Client demo", returnDate |-> "T+1d",
               evidenceFile |-> Undefined])

ScriptApprove ==
  /\ ScriptStep(2)
  /\ \E a \in AdminIdInputs :
       Script([op |-> "updateRequestStatus", reqId |-> requests[1].id,
               status |-> "APPROVED", reason |-> Undefined, adminId |-> a])

ScriptVerify ==
  /\ ScriptStep(3)
  /\ \E g \in GuardIdInputs, t \in GateCommentInputs :
       Script([op |-> "verifyGatePass", reqId |-> requests[1].id,
               guardId |-> g, comment |-> t])

ScriptReturn ==
  /\ ScriptStep(4)
  /\ \E m \in MissingReportInputs :
       Script([op |-> "submitAssetReturn", reqId |-> requests[1].id,
               evidenceFile |-> Undefined, missingItemsReport |-> m])

NextRoundTrip ==
  \/ ScriptSubmit
  \/ ScriptApprove
  \/ ScriptVerify
  \/ ScriptReturn
  \/ \E c \in BagToSet(inflight) : createRequest(c)
  \/ \E c \in BagToSet(inflight) : updateRequestStatus(c)
  \/ \E c \in BagToSet(inflight) : verifyGatePass(c)
  \/ \E c \in BagToSet(inflight) : submitAssetReturn(c)

SpecRoundTrip == Init /\ [][NextRoundTrip]_vars

----------------------------------------------------------------------------
(* Users, the session and the read of the requests *)

\* The email and password arguments of login.
EmailInputs == {"John@E9ogral.com", "nobody@e9ogral.com"}
PasswordInputs == {"hunter2", Undefined}

\* The userId argument of updateUser: the seed requests' owner and no user.
ProfileUserInputs == {"u-2", "u-0"}

\* The updates argument of updateUser (a Partial<User>): a new phone number,
\* the administrator's email in another case, and a new email and department.
UpdatesInputs ==
  {[phoneNumber |-> "+1-555-0777"],
   [email |-> "ADMIN@e9ogral.com"],
   [email |-> "john.e@e9ogral.com", department |-> "Marketing"]}

ProfileCalls ==
     {[op |-> "login", email |-> e, password |-> p] :
        e \in EmailInputs, p \in PasswordInputs}
\cup {[op |-> "updateUser", userId |-> u, updates |-> d] :
        u \in ProfileUserInputs, d \in UpdatesInputs}
\cup {[op |-> "getRequests"]}

InvokeProfile ==
  /\ invoked < MaxCalls
  /\ \E call \in ProfileCalls : inflight' = inflight (+) SetToBag({call})
  /\ activeRequests' = activeRequests + 1
  /\ notifyLoading(activeRequests + 1)
  /\ invoked' = invoked + 1
  /\ UNCHANGED <<store, now, settled>>

\* return value: the promise is fulfilled with a value the caller keeps.
Fulfilled(c, value) ==
  settled' = <<[call |-> c, outcome |-> "ok", before |-> NoRequest,
                value |-> value]>> \o settled

\* users.find(u => u.email.toLowerCase() === email.toLowerCase()): the
\* index, 0 for undefined
FindUserByEmail(email) ==
  IF \E i \in 1..Len(users) : toLowerCase(users[i].email) = toLowerCase(email)
  THEN CHOOSE i \in 1..Len(users) :
         /\ toLowerCase(users[i].email) = toLowerCase(email)
         /\ \A j \in 1..(i - 1) :
              toLowerCase(users[j].email) # toLowerCase(email)
  ELSE 0

login(c) ==
  /\ TimerFires(c, "login")
  /\ IF c.email = ""
     THEN Throw(c, "Email is required", NoRequest)
     ELSE IF c.password = Undefined \/ c.password = ""
     THEN Throw(c, "Password is required", NoRequest)
     ELSE LET u == FindUserByEmail(c.email)
          IN IF u = 0
             THEN Throw(c, "User not found", NoRequest)
             ELSE IF ~users[u].isActive
             THEN Throw(c, "Account deactivated", NoRequest)
             ELSE /\ session' = users[u]
                  /\ Fulfilled(c, users[u])
                  /\ UNCHANGED <<users, assets, requests, deployments,
                                 notifications>>

\* { ...user, ...updates }
Spread(user, updates) ==
  [f \in DOMAIN user \cup DOMAIN updates |->
     IF f \in DOMAIN updates THEN updates[f] ELSE user[f]]

\* The check of lines 181-184 of updateUser: the new email is another
\* user's, case ignored.
EmailInUse(userId, idx, updates) ==
  /\ "email" \in DOMAIN updates
  /\ updates.email # ""
  /\ updates.email # users[idx].email
  /\ \E i \in 1..Len(users) :
       /\ toLowerCase(users[i].email) = toLowerCase(updates.email)
       /\ users[i].id # userId

updateUser(c) ==
  /\ TimerFires(c, "updateUser")
  /\ LET idx == FindIndex(users, c.userId)
     IN IF idx = 0
        THEN Throw(c, "User not found", NoRequest)
        ELSE IF EmailInUse(c.userId, idx, c.updates)
        THEN Throw(c, "Email already in use", NoRequest)
        ELSE LET updatedUser == Spread(users[idx], c.updates)
             IN /\ users' = [users EXCEPT ![idx] = updatedUser]
                /\ session' = IF session # NoSession /\ session.id = c.userId
                              THEN updatedUser ELSE session
                /\ Fulfilled(c, updatedUser)
                /\ UNCHANGED <<assets, requests, deployments, notifications>>

\* getRequests returning the requests as they are stored.
WithStoredUser(req) == req

\* The map callback of getRequests: the request with the user it finds now.
WithFreshUser(req) ==
  LET u == FindUser(req.userId)
  IN IF u # 0 THEN [req EXCEPT !.user = users[u]] ELSE req

getRequests(c) ==
  /\ TimerFires(c, "getRequests")
  /\ Fulfilled(c, [i \in 1..Len(requests) |-> WithFreshUser(requests[i])])
  /\ UNCHANGED store

NextProfile ==
  \/ InvokeProfile
  \/ \E c \in BagToSet(inflight) : login(c)
  \/ \E c \in BagToSet(inflight) : updateUser(c)
  \/ \E c \in BagToSet(inflight) : getRequests(c)

\* The users' profiles edited and the requests read, by concurrent callers.
SpecProfile == Init /\ [][NextProfile]_vars

----------------------------------------------------------------------------
(* Roles *)

\* The arguments of updateUserRole: the seed's administrator or its guard,
\* made an administrator or a plain user.
RoleUserInputs == {"u-1", "u-3"}
NewRoleInputs == {"ADMIN", "USER"}

RoleCalls ==
  {[op |-> "updateUserRole", userId |-> u, newRole |-> r] :
     u \in RoleUserInputs, r \in NewRoleInputs}

updateUserRole(c) ==
  /\ TimerFires(c, "updateUserRole")
  /\ LET idx == FindIndex(users, c.userId)
     IN IF idx = 0
        THEN Throw(c, "User not found", NoRequest)
        ELSE /\ users' = [users EXCEPT ![idx].role = c.newRole]
             /\ Fulfilled(c, [users[idx] EXCEPT !.role = c.newRole])
             /\ UNCHANGED <<assets, requests, deployments, notifications,
                            session>>

VerifyCalls == {c \in CallInputs : c.op = "verifyGatePass"}

InvokeRoles ==
  /\ invoked < MaxCalls
  /\ \E call \in RoleCalls \cup VerifyCalls :
       inflight' = inflight (+) SetToBag({call})
  /\ activeRequests' = activeRequests + 1
  /\ notifyLoading(activeRequests + 1)
  /\ invoked' = invoked + 1
  /\ UNCHANGED <<store, now, settled>>

NextRoles ==
  \/ InvokeRoles
  \/ \E c \in BagToSet(inflight) : updateUserRole(c)
  \/ \E c \in BagToSet(inflight) : verifyGatePass(c)

\* Roles changed by the administrator while the guard verifies gate passes.
SpecRoles == Init /\ [][NextRoles]_vars

----------------------------------------------------------------------------
(* The guard's lookup of a presented code (src/App.tsx, GuardDashboard) *)

\* The string the guard presents: the seed's code, the other code an
\* approval may mint, a request id, and a code no request has.
CodeInputs == {"GP-9123", "GP-1000", "req-2", "GP-0000"}

SearchCalls == {[op |-> "handleSearch", code |-> s] : s \in CodeInputs}

\* A lookup that knows request ids only.
GateLookupById(reqs, code) ==
  IF \E i \in 1..Len(reqs) : reqs[i].id = code
  THEN reqs[CHOOSE i \in 1..Len(reqs) :
              /\ reqs[i].id = code
              /\ \A j \in 1..(i - 1) : reqs[j].id # code]
  ELSE NoRequest

\* reqs.find(r => r.gatePassCode === code || r.id === code): the first
\* request that passes, NoRequest for undefined.  An unset gatePassCode
\* equals no string.
GateLookup(reqs, code) ==
  LET hit(r) == (r.gatePassCode # Undefined /\ r.gatePassCode = code)
                  \/ r.id = code
  IN IF \E i \in 1..Len(reqs) : hit(reqs[i])
     THEN reqs[CHOOSE i \in 1..Len(reqs) :
                 hit(reqs[i]) /\ \A j \in 1..(i - 1) : ~hit(reqs[j])]
     ELSE NoRequest

\* handleSearch: await api.getRequests(), then find; what it finds becomes
\* the component's foundRequest (null when nothing is found).
handleSearch(c) ==
  /\ TimerFires(c, "handleSearch")
  /\ Fulfilled(c, GateLookup([i \in 1..Len(requests) |->
                                WithFreshUser(requests[i])], c.code))
  /\ UNCHANGED store

InvokeGate ==
  /\ invoked < MaxCalls
  /\ \E call \in DecideCalls \cup SearchCalls :
       inflight' = inflight (+) SetToBag({call})
  /\ activeRequests' = activeRequests + 1
  /\ notifyLoading(activeRequests + 1)
  /\ invoked' = invoked + 1
  /\ UNCHANGED <<store, now, settled>>

NextGate ==
  \/ InvokeGate
  \/ \E c \in BagToSet(inflight) : updateRequestStatus(c)
  \/ \E c \in BagToSet(inflight) : handleSearch(c)

\* Decisions by the administrator and lookups by the guard.
SpecGate == Init /\ [][NextGate]_vars

----------------------------------------------------------------------------
(* Deployments *)

\* The assetIds argument of addDeployment: an AVAILABLE asset, the IN_USE
\* a-3, and an AVAILABLE asset with the DEPLOYED a-5.
DeployAssetIdsInputs == {<<"a-1">>, <<"a-3">>, <<"a-2", "a-5">>}

\* The contact fields and the notes are display text and are left out, as in
\* the seed.
DeployCalls ==
  {[op |-> "addDeployment", clientName |-> "Globex", assetIds |-> a,
    deploymentDate |-> "T+0d", deployedBy |-> "u-1"] :
     a \in DeployAssetIdsInputs}

\* The assets table after the map of lines 458-463 of addDeployment.
MarkedDeployed(table, assetIds) ==
  [i \in 1..Len(table) |->
     IF table[i].id \in Range(assetIds)
     THEN [table[i] EXCEPT !.status = "DEPLOYED"] ELSE table[i]]

addDeployment(c) ==
  /\ TimerFires(c, "addDeployment")
  /\ LET selectedAssets ==
           Filter(assets, {a \in Range(assets) : a.id \in Range(c.assetIds)})
         newDep == [id |-> "dep-" \o Stamp(now'), clientName |-> c.clientName,
                    items |-> selectedAssets,
                    deploymentDate |-> c.deploymentDate,
                    deployedBy |-> c.deployedBy]
     IN /\ assets' = MarkedDeployed(assets, c.assetIds)
        /\ deployments' = <<newDep>> \o deployments
        /\ Fulfilled(c, newDep)
        /\ UNCHANGED <<users, requests, notifications, session>>

ReturnCalls == {c \in CallInputs : c.op = "submitAssetReturn"}

InvokeLedger ==
  /\ invoked < MaxCalls
  /\ \E call \in DeployCalls \cup ReturnCalls :
       inflight' = inflight (+) SetToBag({call})
  /\ activeRequests' = activeRequests + 1
  /\ notifyLoading(activeRequests + 1)
  /\ invoked' = invoked + 1
  /\ UNCHANGED <<store, now, settled>>

NextLedger ==
  \/ InvokeLedger
  \/ \E c \in BagToSet(inflight) : addDeployment(c)
  \/ \E c \in BagToSet(inflight) : submitAssetReturn(c)

\* The operations the asset ledger is meant to follow: deployments created
\* and requests returned.
SpecLedger == Init /\ [][NextLedger]_vars

----------------------------------------------------------------------------
(* The loading indicator and the timers *)

\* GlobalLoadingBar's listener, (isLoading) => setLoading(isLoading)
LoadingBar == "setLoading"

\* subscribeToLoading(listener): the listener is stored and called at once
\* with the current state.  It has no delay.
subscribeToLoading ==
  /\ loadingListener' = LoadingBar
  /\ loading' = (activeRequests > 0)
  /\ UNCHANGED <<store, now, inflight, activeRequests, invoked, settled>>

\* The function subscribeToLoading returned is called: the effect's cleanup.
unsubscribeFromLoading ==
  /\ loadingListener # Undefined
  /\ loadingListener' = Undefined
  /\ UNCHANGED <<store, now, inflight, activeRequests, invoked, settled,
                 loading>>

\* The timer of a call in flight fires and the call runs to its end.
TimersFire ==
  \E c \in BagToSet(inflight) : updateUserRole(c) \/ verifyGatePass(c)

NextLoading ==
  \/ subscribeToLoading
  \/ unsubscribeFromLoading
  \/ InvokeRoles
  \/ \E c \in BagToSet(inflight) : updateUserRole(c)
  \/ \E c \in BagToSet(inflight) : verifyGatePass(c)

\* Calls made while the loading bar subscribes and unsubscribes.  A timer
\* set with setTimeout fires: the event loop runs it once its time has come.
SpecLoading == Init /\ [][NextLoading]_vars /\ WF_vars(TimersFire)

----------------------------------------------------------------------------
(* The notification bell *)

\* The ids handleMarkRead can pass: those of the stored notifications, and
\* one that is stored nowhere.
NotifIdInputs ==
  {notifications[i].id : i \in 1..Len(notifications)} \cup {"n-0"}

\* A notification whose read flag is flipped rather than set.
MarkedReadToggled(n, idx) == [n EXCEPT ![idx].read = ~@]

\* db.notifications[idx].read = true
MarkedRead(n, idx) == [n EXCEPT ![idx].read = TRUE]

\* markNotificationRead(notifId).  It awaits nothing: the whole body runs
\* when it is called, and its promise is fulfilled with undefined.
markNotificationRead ==
  /\ \E notifId \in NotifIdInputs :
       LET idx == FindIndex(notifications, notifId)
       IN notifications' = IF idx > 0 THEN MarkedRead(notifications, idx)
                                      ELSE notifications
  /\ UNCHANGED <<users, assets, requests, deployments, session, now,
                 inflight, activeRequests, invoked, settled,
                 loadingListener, loading>>

IssueCalls == {c \in CallInputs : c.op = "reportGateIssue"}

InvokeInbox ==
  /\ invoked < MaxCalls
  /\ \E call \in VerifyCalls \cup IssueCalls :
       inflight' = inflight (+) SetToBag({call})
  /\ activeRequests' = activeRequests + 1
  /\ notifyLoading(activeRequests + 1)
  /\ invoked' = invoked + 1
  /\ UNCHANGED <<store, now, settled>>

NextInbox ==
  \/ InvokeInbox
  \/ \E c \in BagToSet(inflight) : verifyGatePass(c)
  \/ \E c \in BagToSet(inflight) : reportGateIssue(c)
  \/ markNotificationRead

\* Gate checks that notify the requester and the administrator, while users
\* open the bell and mark what they see as read.
SpecInbox == Init /\ [][NextInbox]_vars

----------------------------------------------------------------------------
(* The session of a user whose record the administrator edits *)

\* The userId argument of updateUserRole in AdminUsers: the user who logs in
\* and the seed administrator.
SessionUserInputs == {"u-2", "u-1"}

SessionCalls ==
     {c \in ProfileCalls : c.op \in {"login", "updateUser"}}
\cup {[op |-> "updateUserRole", userId |-> u, newRole |-> r] :
        u \in SessionUserInputs, r \in NewRoleInputs}

InvokeSession ==
  /\ invoked < MaxCalls
  /\ \E call \in SessionCalls : inflight' = inflight (+) SetToBag({call})
  /\ activeRequests' = activeRequests + 1
  /\ notifyLoading(activeRequests + 1)
  /\ invoked' = invoked + 1
  /\ UNCHANGED <<store, now, settled>>

\* logout(): localStorage.removeItem(KEY_SESSION).  It has no delay.
logout ==
  /\ session # NoSession
  /\ session' = NoSession
  /\ UNCHANGED <<users, assets, requests, deployments, notifications, now,
                 inflight, activeRequests, invoked, settled,
                 loadingListener, loading>>

NextSession ==
  \/ InvokeSession
  \/ \E c \in BagToSet(inflight) : login(c)
  \/ \E c \in BagToSet(inflight) : updateUser(c)
  \/ \E c \in BagToSet(inflight) : updateUserRole(c)
  \/ logout

\* A user logs in and out while profiles are edited and roles are changed.
SpecSession == Init /\ [][NextSession]_vars

----------------------------------------------------------------------------
(* CSV text *)

\* A CSV text is given as its lines (csvText.split('\n')), and a line as its
\* fields (line.split(',')).

RECURSIVE TrimStart(_)
TrimStart(s) ==
  IF Len(s) > 0 /\ SubSeq(s, 1, 1) = " "
  THEN TrimStart(SubSeq(s, 2, Len(s))) ELSE s

RECURSIVE TrimEnd(_)
TrimEnd(s) ==
  IF Len(s) > 0 /\ SubSeq(s, Len(s), Len(s)) = " "
  THEN TrimEnd(SubSeq(s, 1, Len(s) - 1)) ELSE s

\* String.prototype.trim, on blanks
Trim(s) == TrimEnd(TrimStart(s))

\* lines[i].trim().split(','): the blanks before the first field and behind
\* the last one are gone.
TrimLine(fields) ==
  [k \in 1..Len(fields) |->
     LET first == IF k = 1 THEN TrimStart(fields[k]) ELSE fields[k]
     IN IF k = Len(fields) THEN TrimEnd(first) ELSE first]

\* !line: the trimmed line is the empty string.
IsBlank(fields) == Len(fields) = 1 /\ fields[1] = ""

\* const [a, b, ...] = line.split(','): the k-th name, undefined if the line
\* has fewer fields
Field(fields, k) == IF k <= Len(fields) THEN fields[k] ELSE Undefined

\* A value is truthy: neither undefined nor the empty string.
Truthy(v) == v # Undefined /\ v # ""

\* String(i) for a small index
Digits(i) == SubSeq("0123456789", i + 1, i + 1)

----------------------------------------------------------------------------
(* The inventory *)

\* The serial numbers typed into the Add Asset form: one the seed asset a-1
\* has, two new ones, and the same new one twice.
SerialNumbersInputs ==
  {<<"MBP-2024-X99">>, <<"LNV-T14-001", "LNV-T14-002">>,
   <<"LNV-T14-003", "LNV-T14-003">>}

\* The files of the CSV upload: a header and two rows, the second with the
\* serial number of the first in blanks; and a header, a row without a serial
\* number and a row with a new one.
AssetCsvInputs ==
  {<< <<"Name", "Category", "SerialNumber", "Description">>,
      <<"ThinkPad T14", "Laptop", "LNV-T14-001", "Spare">>,
      <<"ThinkPad T14", "Laptop", " LNV-T14-001 ">> >>,
   << <<"Name", "Category", "SerialNumber", "Description">>,
      <<"ThinkPad T14", "Laptop", "">>,
      <<"">>,
      <<" ThinkPad T14", "Laptop", "LNV-T14-004 ">> >>}

AssetCalls ==
     {[op |-> "addAsset",
       asset |-> [name |-> "ThinkPad T14", serialNumber |-> sn,
                  category |-> "Laptop", status |-> "AVAILABLE"]] :
        sn \in {"DELL-5520-B21", "LNV-T14-005"}}
\cup {[op |-> "bulkAddAssets",
       baseAsset |-> [name |-> "ThinkPad T14", category |-> "Laptop",
                      status |-> "AVAILABLE"],
       serialNumbers |-> sns] : sns \in SerialNumbersInputs}
\cup {[op |-> "importAssetsFromCSV", csvText |-> csv] :
        csv \in AssetCsvInputs}

InvokeAssets ==
  /\ invoked < MaxCalls
  /\ \E call \in AssetCalls : inflight' = inflight (+) SetToBag({call})
  /\ activeRequests' = activeRequests + 1
  /\ notifyLoading(activeRequests + 1)
  /\ invoked' = invoked + 1
  /\ UNCHANGED <<store, now, settled>>

addAsset(c) ==
  /\ TimerFires(c, "addAsset")
  /\ LET newAsset == Spread(c.asset, [id |-> "a-" \o Stamp(now')])
     IN /\ assets' = <<newAsset>> \o assets
        /\ Fulfilled(c, newAsset)
  /\ UNCHANGED <<users, requests, deployments, notifications, session>>

bulkAddAssets(c) ==
  /\ TimerFires(c, "bulkAddAssets")
  /\ LET timestamp == Stamp(now')
         newAssets ==
           [k \in 1..Len(c.serialNumbers) |->
              Spread(c.baseAsset,
                     [id |-> "a-" \o timestamp \o "-" \o Digits(k - 1),
                      serialNumber |-> c.serialNumbers[k]])]
     IN /\ assets' = newAssets \o assets
        /\ Fulfilled(c, newAssets)
  /\ UNCHANGED <<users, requests, deployments, notifications, session>>

RECURSIVE ImportAssetRows(_, _, _, _)
\* The loop of importAssetsFromCSV from line i (0-based) on, at clock value
\* t: the table it leaves, given the table so far.
ImportAssetRows(lines, i, t, table) ==
  IF i >= Len(lines) THEN table
  ELSE LET line == TrimLine(lines[i + 1])
           name == Field(line, 1)
           category == Field(line, 2)
           serialNumber == Field(line, 3)
       IN IF ~IsBlank(line) /\ Truthy(name) /\ Truthy(category)
             /\ Truthy(serialNumber)
          THEN ImportAssetRows(lines, i + 1, t,
                 <<[id |-> "a-" \o Stamp(t) \o "-" \o Digits(i),
                    name |-> Trim(name), category |-> Trim(category),
                    serialNumber |-> Trim(serialNumber),
                    status |-> "AVAILABLE"]>> \o table)
          ELSE ImportAssetRows(lines, i + 1, t, table)

importAssetsFromCSV(c) ==
  /\ TimerFires(c, "importAssetsFromCSV")
  /\ assets' = ImportAssetRows(c.csvText, 1, now', assets)
  /\ Fulfilled(c, Len(assets') - Len(assets))
  /\ UNCHANGED <<users, requests, deployments, notifications, session>>

NextAssets ==
  \/ InvokeAssets
  \/ \E c \in BagToSet(inflight) : addAsset(c)
  \/ \E c \in BagToSet(inflight) : bulkAddAssets(c)
  \/ \E c \in BagToSet(inflight) : importAssetsFromCSV(c)

\* Assets added to the inventory, from the form and from CSV files.
SpecAssets == Init /\ [][NextAssets]_vars

----------------------------------------------------------------------------
(* The user directory *)

UpperChar(ch) ==
  IF \E k \in 1..Len(LowerCaseLetters) : SubSeq(LowerCaseLetters, k, k) = ch
  THEN LET k == CHOOSE k \in 1..Len(LowerCaseLetters) :
                  SubSeq(LowerCaseLetters, k, k) = ch
       IN SubSeq(UpperCaseLetters, k, k)
  ELSE ch

RECURSIVE toUpperCase(_)
\* String.prototype.toUpperCase on the ASCII letters.
toUpperCase(s) ==
  IF Len(s) = 0 THEN ""
  ELSE UpperChar(SubSeq(s, 1, 1)) \o toUpperCase(SubSeq(s, 2, Len(s)))

\* s.includes(sub)
Includes(s, sub) ==
  \E k \in 1..(Len(s) - Len(sub) + 1) : SubSeq(s, k, k + Len(sub) - 1) = sub

\* lines[0].toLowerCase().includes('email') ? 1 : 0 ('email' holds no comma,
\* so the line includes it exactly if one of its fields does)
StartIdx(lines) ==
  IF \E k \in 1..Len(lines[1]) : Includes(toLowerCase(lines[1][k]), "email")
  THEN 1 ELSE 0

\* The email typed into the Add User form: the seed administrator's in
\* another case, and a new one.
NewEmailInputs == {"Admin@E9ogral.com", "ann@e9ogral.com"}

\* The files of the user CSV upload: a header and two rows with one email,
\* in different case and in blanks; and, without a header, a row with an
\* unknown role and a row with the seed user John's email.
UserCsvInputs ==
  {<< <<"Name", "Email", "Role", "Department", "Phone">>,
      <<"Ann Lee", " Ann@e9ogral.com", "guard", "Ops", "555-0001">>,
      <<"Ann Lee", "ann@E9OGRAL.com ">> >>,
   << <<"Bob Ray", "bob@e9ogral.com", "boss">>,
      <<"">>,
      <<"John Twin", "JOHN@e9ogral.com", "USER">> >>}

\* The userId and updates arguments of updateUser from the profile form: the
\* email field cleared, and the email of the Add User form.
DirectoryUpdateInputs == {[email |-> ""], [email |-> "ann@e9ogral.com"]}

DirectoryCalls ==
     {[op |-> "createUser",
       user |-> [name |-> "Ann Lee", email |-> e, role |-> "USER",
                 department |-> "Ops", phoneNumber |-> "555-0001"]] :
        e \in NewEmailInputs}
\cup {[op |-> "importUsersFromCSV", csvText |-> csv] : csv \in UserCsvInputs}
\cup {[op |-> "updateUser", userId |-> u, updates |-> d] :
        u \in SessionUserInputs, d \in DirectoryUpdateInputs}

InvokeDirectory ==
  /\ invoked < MaxCalls
  /\ \E call \in DirectoryCalls : inflight' = inflight (+) SetToBag({call})
  /\ activeRequests' = activeRequests + 1
  /\ notifyLoading(activeRequests + 1)
  /\ invoked' = invoked + 1
  /\ UNCHANGED <<store, now, settled>>

\* db.users.some(u => u.email.toLowerCase() === email.toLowerCase())
EmailTaken(table, email) ==
  \E i \in 1..Len(table) : toLowerCase(table[i].email) = toLowerCase(email)

createUser(c) ==
  /\ TimerFires(c, "createUser")
  /\ IF EmailTaken(users, c.user.email)
     THEN Throw(c, "User with this email already exists", NoRequest)
     ELSE LET newUser == Spread(c.user, [id |-> "u-" \o Stamp(now'),
                                         isActive |-> TRUE])
          IN /\ users' = Append(users, newUser)
             /\ Fulfilled(c, newUser)
             /\ UNCHANGED <<assets, requests, deployments, notifications,
                            session>>

RECURSIVE ImportUserRows(_, _, _, _)
\* The loop of importUsersFromCSV from line i (0-based) on, at clock value
\* t: the table it leaves, given the table so far.
ImportUserRows(lines, i, t, table) ==
  IF i >= Len(lines) THEN table
  ELSE LET line == TrimLine(lines[i + 1])
           name == Field(line, 1)
           email == Field(line, 2)
           roleStr == Field(line, 3)
           dept == Field(line, 4)
           phone == Field(line, 5)
       IN IF ~IsBlank(line) /\ Truthy(name) /\ Truthy(email)
             /\ ~EmailTaken(table, Trim(email))
          THEN ImportUserRows(lines, i + 1, t,
                 Append(table,
                   [id |-> "u-" \o Stamp(t) \o "-" \o Digits(i),
                    name |-> Trim(name),
                    email |-> Trim(email),
                    role |-> IF roleStr # Undefined
                                  /\ toUpperCase(Trim(roleStr)) \in UserRole
                             THEN toUpperCase(Trim(roleStr)) ELSE "USER",
                    department |-> IF Truthy(dept) THEN Trim(dept)
                                                   ELSE "General",
                    phoneNumber |-> IF Truthy(phone) THEN Trim(phone) ELSE "",
                    isActive |-> TRUE]))
          ELSE ImportUserRows(lines, i + 1, t, table)

importUsersFromCSV(c) ==
  /\ TimerFires(c, "importUsersFromCSV")
  /\ users' = ImportUserRows(c.csvText, StartIdx(c.csvText), now', users)
  /\ Fulfilled(c, Len(users') - Len(users))
  /\ UNCHANGED <<assets, requests, deployments, notifications, session>>

NextDirectory ==
  \/ InvokeDirectory
  \/ \E c \in BagToSet(inflight) : createUser(c)
  \/ \E c \in BagToSet(inflight) : importUsersFromCSV(c)
  \/ \E c \in BagToSet(inflight) : updateUser(c)

\* Users added from the form and from CSV files, and profiles edited.
SpecDirectory == Init /\ [][NextDirectory]_vars

----------------------------------------------------------------------------
(* What the claims are stated with *)

\* The stored request with this id (the first one, as findIndex finds it).
Req(id) == requests[FindIndex(requests, id)]

\* The latest call to have completed is one of operation op that addressed a
\* stored request.  The store changes only when a call completes, so in every
\* state `requests` is what that call left.
LastOn(op) ==
  /\ Len(settled) > 0
  /\ settled[1].call.op = op
  /\ settled[1].before # NoRequest

Succeeded(s) == s.outcome = "ok"

TerminalStatuses == {"REJECTED", "RETURNED", "CANCELLED"}

\* The current role of the user with this id ("none" when there is none).
RoleOf(userId) ==
  IF FindUser(userId) = 0 THEN "none" ELSE users[FindUser(userId)].role

\* The settled call s is a decision made for an administrator.
ByAdmin(s) == RoleOf(s.call.adminId) = "ADMIN"

\* The request that the latest call addressed is stored as it was before.
LastLeftUnchanged == Req(settled[1].call.reqId) = settled[1].before

----------------------------------------------------------------------------
(* Claims *)

\* C1: every request's status is one of the six statuses, and a request
\* whose status is REJECTED, RETURNED or CANCELLED keeps that status in every
\* step (a new request is put first, so a request keeps its distance from the
\* end of the table).
C1_TerminalStatusIsFinal ==
  /\ [](\A i \in 1..Len(requests) : requests[i].status \in RequestStatus)
  /\ [][\A i \in 1..Len(requests) :
          requests[i].status \in TerminalStatuses
            => requests'[i + Len(requests') - Len(requests)].status
                 = requests[i].status]_vars

\* C2: of two decisions on the same request, one APPROVE and one REJECT,
\* both made for an administrator while it was PENDING and in flight
\* together, the one whose body runs first succeeds and the other fails.
C2_RacingDecisionsExclude ==
  \A i, j \in 1..Len(settled) :
    (/\ i < j
     /\ settled[j].before # NoRequest
     /\ settled[j].before.status = "PENDING"
     /\ ByAdmin(settled[i]) /\ ByAdmin(settled[j])
     /\ settled[i].call.reqId = settled[j].call.reqId
     /\ settled[i].call.status # settled[j].call.status)
    => (Succeeded(settled[j]) /\ ~Succeeded(settled[i]))

\* C3: after a successful approval (of a PENDING request, for an
\* administrator), no other request whose status is not terminal carries the
\* gate pass code that the approval minted.
C3_MintedCodeIsUnique ==
  (/\ LastOn("updateRequestStatus")
   /\ settled[1].call.status = "APPROVED"
   /\ settled[1].before.status = "PENDING"
   /\ ByAdmin(settled[1])
   /\ Succeeded(settled[1]))
  => LET idx == FindIndex(requests, settled[1].call.reqId)
     IN \A i \in 1..Len(requests) :
          (i # idx /\ requests[i].status \notin TerminalStatuses)
            => requests[i].gatePassCode # requests[idx].gatePassCode

\* C4: submitAssetReturn succeeds exactly when the request was APPROVED or
\* CHECKED_OUT with gateVerified true, and a failed call leaves the request
\* as it was.
C4_ReturnNeedsVerifiedExit ==
  LastOn("submitAssetReturn")
  => /\ Succeeded(settled[1])
          <=> (/\ settled[1].before.status \in {"APPROVED", "CHECKED_OUT"}
               /\ settled[1].before.gateVerified)
     /\ ~Succeeded(settled[1]) => LastLeftUnchanged

\* The ids of the assets that a deployment holds.
DeployedIds ==
  UNION {{it.id : it \in Range(deployments[d].items)} :
           d \in 1..Len(deployments)}

\* C5: after a successful return of a request that was APPROVED or
\* CHECKED_OUT and gate-verified (a return the contract allows), every asset
\* the request names, unless another open request or a deployment names it
\* too, is AVAILABLE.
C5_ReturnReleasesAssets ==
  (/\ LastOn("submitAssetReturn")
   /\ Succeeded(settled[1])
   /\ settled[1].before.status \in {"APPROVED", "CHECKED_OUT"}
   /\ settled[1].before.gateVerified)
  => LET idx == FindIndex(requests, settled[1].call.reqId)
         elsewhere ==
           UNION {Range(requests[i].itemIds) :
                    i \in {j \in 1..Len(requests) :
                             j # idx /\ requests[j].status \notin TerminalStatuses}}
           \cup DeployedIds
     IN \A a \in 1..Len(assets) :
          (assets[a].id \in Range(requests[idx].itemIds) \ elsewhere)
            => assets[a].status = "AVAILABLE"

\* C6: verifyGatePass on a request whose gateVerified is already true fails
\* and leaves gateVerifiedAt, gateVerifiedBy and gateComment as they were.
C6_SecondVerifyFails ==
  (LastOn("verifyGatePass") /\ settled[1].before.gateVerified)
  => /\ ~Succeeded(settled[1])
     /\ LET r == Req(settled[1].call.reqId)
        IN /\ r.gateVerifiedAt = settled[1].before.gateVerifiedAt
           /\ r.gateVerifiedBy = settled[1].before.gateVerifiedBy
           /\ r.gateComment = settled[1].before.gateComment

\* C7: cancelRequest succeeds exactly when the request was PENDING and the
\* caller is the request's owner, and a failed call leaves the request as it
\* was.
C7_CancelOnlyByOwnerWhilePending ==
  LastOn("cancelRequest")
  => /\ Succeeded(settled[1])
          <=> (/\ settled[1].before.status = "PENDING"
               /\ settled[1].call.caller = settled[1].before.userId)
     /\ ~Succeeded(settled[1]) => LastLeftUnchanged

\* The status and gateVerified of the scripted request after each step of
\* submit, approve, verify, return.
RoundTripStatus == <<"PENDING", "APPROVED", "APPROVED", "RETURNED">>
RoundTripVerified == <<FALSE, FALSE, TRUE, TRUE>>

\* C8: in the run submit, approve, verify, return every step succeeds, and
\* in every state the submitted request has the status and the gateVerified
\* flag of the step completed last: PENDING, APPROVED, APPROVED, RETURNED and
\* false, false, true, true.
C8_RoundTrip ==
  Len(settled) > 0
  => /\ \A k \in 1..Len(settled) : Succeeded(settled[k])
     /\ requests[1].status = RoundTripStatus[Len(settled)]
     /\ requests[1].gateVerified = RoundTripVerified[Len(settled)]
     /\ Len(settled) > 1 =>
          /\ settled[1].before.status = RoundTripStatus[Len(settled) - 1]
          /\ settled[1].before.gateVerified = RoundTripVerified[Len(settled) - 1]

\* C8's case: the four steps are done and the request is RETURNED and
\* gate-verified.
C8_RoundTripDone ==
  /\ Len(settled) = 4
  /\ settled[1].call.op = "submitAssetReturn"
  /\ requests[1].status = "RETURNED"
  /\ requests[1].gateVerified

\* C9: updateRequestStatus (called for an administrator) on a request that
\* is not PENDING fails and leaves the request as it was.
C9_DecideOnlyWhilePending ==
  (/\ LastOn("updateRequestStatus")
   /\ ByAdmin(settled[1])
   /\ settled[1].before.status # "PENDING")
  => (~Succeeded(settled[1]) /\ LastLeftUnchanged)

\* C10: updateRequestStatus (on a PENDING request) succeeds only for an
\* acting user whose role is ADMIN, and a call for any other actor leaves the
\* request as it was.
C10_DecideOnlyByAdmin ==
  (LastOn("updateRequestStatus") /\ settled[1].before.status = "PENDING")
  => /\ Succeeded(settled[1]) => ByAdmin(settled[1])
     /\ ~ByAdmin(settled[1]) => LastLeftUnchanged

\* C11: a request whose gateVerified is true keeps it true in every step (a
\* new request is put first, so a request keeps its distance from the end of
\* the table); the flag therefore goes from false to true at most once.
C11_VerifiedStaysVerified ==
  [][\A i \in 1..Len(requests) :
       requests[i].gateVerified
         => requests'[i + Len(requests') - Len(requests)].gateVerified]_vars

\* C12: reportGateIssue on a request whose gateVerified is true fails and
\* leaves the request, its verification record included, as it was.
C12_DenyOnlyWhileUnverified ==
  (LastOn("reportGateIssue") /\ settled[1].before.gateVerified)
  => (~Succeeded(settled[1]) /\ LastLeftUnchanged)

\* C13: a successful reportGateIssue leaves the request's status as it was
\* and its gateVerified false, and a verifyGatePass that follows it on the
\* same request, APPROVED when the issue was reported, succeeds and sets
\* gateVerified.
C13_DenialIsRetryable ==
  /\ (LastOn("reportGateIssue") /\ Succeeded(settled[1]))
     => /\ Req(settled[1].call.reqId).status = settled[1].before.status
        /\ ~Req(settled[1].call.reqId).gateVerified
  /\ (/\ Len(settled) > 1
      /\ LastOn("verifyGatePass")
      /\ settled[2].call.op = "reportGateIssue"
      /\ settled[2].call.reqId = settled[1].call.reqId
      /\ Succeeded(settled[2])
      /\ settled[2].before.status = "APPROVED")
     => /\ Succeeded(settled[1])
        /\ settled[1].before.status = "APPROVED"
        /\ ~settled[1].before.gateVerified
        /\ Req(settled[1].call.reqId).gateVerified

\* C13's case: an issue was reported on an APPROVED request and the
\* verification that followed went through.
C13_VerifiedAfterDenial ==
  /\ Len(settled) > 1
  /\ settled[2].call.op = "reportGateIssue"
  /\ Succeeded(settled[2])
  /\ settled[2].before # NoRequest
  /\ settled[2].before.status = "APPROVED"
  /\ settled[1].call.op = "verifyGatePass"
  /\ settled[1].call.reqId = settled[2].call.reqId
  /\ Succeeded(settled[1])
  /\ Req(settled[1].call.reqId).gateVerified

\* C14: verifyGatePass on a stored request succeeds exactly when the request
\* was APPROVED or CHECKED_OUT; on a request of any other status it fails
\* with the not-approved error and the step changes neither the requests
\* (gateVerified stays what it was) nor the notifications.
C14_VerifyOnlyWhenApproved ==
  /\ [](LastOn("verifyGatePass")
          => (Succeeded(settled[1])
                <=> settled[1].before.status \in {"APPROVED", "CHECKED_OUT"}))
  /\ [][(/\ Len(settled') = Len(settled) + 1
         /\ settled'[1].call.op = "verifyGatePass"
         /\ settled'[1].before # NoRequest
         /\ settled'[1].before.status \notin {"APPROVED", "CHECKED_OUT"})
        => /\ settled'[1].outcome
                = "Cannot verify gate pass for unapproved requests"
           /\ requests' = requests
           /\ notifications' = notifications]_vars

\* C14's case: a verification of a request that was neither APPROVED nor
\* CHECKED_OUT, and not verified, has been refused.
C14_VerifyRefused ==
  /\ LastOn("verifyGatePass")
  /\ settled[1].before.status \in {"PENDING", "REJECTED", "CANCELLED", "RETURNED"}
  /\ ~settled[1].before.gateVerified
  /\ ~Succeeded(settled[1])
  /\ ~Req(settled[1].call.reqId).gateVerified

\* The latest call to have completed is a createRequest.
LastSubmit == Len(settled) > 0 /\ settled[1].call.op = "createRequest"

\* C15: createRequest succeeds only if assetIds is not empty and every id in
\* it is the id of a stored asset whose status is AVAILABLE.
C15_SubmitNeedsAvailableAssets ==
  (LastSubmit /\ Succeeded(settled[1]))
  => LET ids == settled[1].call.assetIds
     IN /\ Len(ids) > 0
        /\ \A k \in 1..Len(ids) :
             \E a \in 1..Len(assets) :
               assets[a].id = ids[k] /\ assets[a].status = "AVAILABLE"

\* C16: after a successful createRequest no asset of the new request (the
\* first of the table) is named by another request whose status is not
\* terminal.
C16_NoAssetInTwoOpenRequests ==
  (LastSubmit /\ Succeeded(settled[1]))
  => \A i \in 2..Len(requests) :
       requests[i].status \notin TerminalStatuses
         => Range(requests[i].itemIds) \cap Range(requests[1].itemIds) = {}

\* The ids of the assets whose status is IN_USE.
InUseIds == {assets[a].id : a \in {b \in 1..Len(assets) : assets[b].status = "IN_USE"}}

\* The ids of the assets named by a request that is APPROVED or CHECKED_OUT
\* and gate-verified.
VerifiedOutIds ==
  UNION {Range(requests[i].itemIds) :
           i \in {j \in 1..Len(requests) :
                    /\ requests[j].status \in {"APPROVED", "CHECKED_OUT"}
                    /\ requests[j].gateVerified}}

\* C17: in every state the assets whose status is IN_USE are exactly the
\* assets named by the requests that are APPROVED or CHECKED_OUT with
\* gateVerified true.
C17_InUseIsVerifiedOut == InUseIds = VerifiedOutIds

\* C18: a request has a gatePassCode if and only if its status has at some
\* point been APPROVED.  Stated step by step: a request that is APPROVED has a
\* code; a request created by the step has no code and is not APPROVED; and
\* at the end of a step a request has a code exactly if it had one before or
\* is APPROVED now.
C18_CodeIffEverApproved ==
  /\ [](\A i \in 1..Len(requests) :
          requests[i].status = "APPROVED" => requests[i].gatePassCode # Undefined)
  /\ [][LET d == Len(requests') - Len(requests)
        IN /\ \A j \in 1..d :
                /\ requests'[j].gatePassCode = Undefined
                /\ requests'[j].status # "APPROVED"
           /\ \A i \in 1..Len(requests) :
                requests'[i + d].gatePassCode # Undefined
                  <=> (\/ requests[i].gatePassCode # Undefined
                       \/ requests'[i + d].status = "APPROVED")]_vars

\* C18's case: a request that had no code was approved and then returned,
\* and carries the code though it is APPROVED no longer.
C18_CodeOutlivesApproval ==
  /\ Len(settled) > 1
  /\ LastOn("submitAssetReturn")
  /\ settled[2].call.op = "updateRequestStatus"
  /\ settled[2].call.status = "APPROVED"
  /\ settled[2].call.reqId = settled[1].call.reqId
  /\ settled[2].before # NoRequest
  /\ settled[2].before.gatePassCode = Undefined
  /\ Req(settled[1].call.reqId).status = "RETURNED"
  /\ Req(settled[1].call.reqId).gatePassCode # Undefined

\* C19: a step in which a call completes with a rejected promise leaves the
\* stored users, assets, requests, deployments and notifications as they
\* were.
C19_FailureWritesNothing ==
  [][(Len(settled') = Len(settled) + 1 /\ settled'[1].outcome # "ok")
       => /\ users' = users
          /\ assets' = assets
          /\ requests' = requests
          /\ deployments' = deployments
          /\ notifications' = notifications]_vars

\* C19's case: a call on a stored request has been rejected after another
\* call had written requests and notifications.
C19_RejectedAfterWrite ==
  /\ Len(settled) > 1
  /\ Succeeded(settled[2])
  /\ Len(notifications) > 0
  /\ ~Succeeded(settled[1])
  /\ settled[1].before # NoRequest

\* The latest call to have completed is a getRequests.
LastGet == Len(settled) > 0 /\ settled[1].call.op = "getRequests"

\* C20: getRequests returns the stored requests, in order, each with the
\* stored record of the user with id userId as its user field and every
\* other field as stored; after a successful updateUser with a new phone
\* number the next getRequests shows that number in every request of that
\* user; and the step in which getRequests completes writes nothing.
C20_ReadJoinsCurrentUser ==
  /\ [](LastGet
          => LET got == settled[1].value
             IN /\ Len(got) = Len(requests)
                /\ \A i \in 1..Len(requests) :
                     /\ [got[i] EXCEPT !.user = requests[i].user] = requests[i]
                     /\ \E u \in 1..Len(users) :
                          /\ users[u].id = requests[i].userId
                          /\ got[i].user = users[u])
  /\ []((/\ LastGet
         /\ Len(settled) > 1
         /\ settled[2].call.op = "updateUser"
         /\ Succeeded(settled[2])
         /\ "phoneNumber" \in DOMAIN settled[2].call.updates)
        => \A i \in 1..Len(requests) :
             requests[i].userId = settled[2].call.userId
               => settled[1].value[i].user.phoneNumber
                    = settled[2].call.updates.phoneNumber)
  /\ [][(Len(settled') = Len(settled) + 1
           /\ settled'[1].call.op = "getRequests")
          => UNCHANGED store]_vars

\* C20's case: a user's phone number was edited and the read that followed
\* shows the new number in that user's request, whose stored user field
\* still has the old one.
C20_EditSeenInRead ==
  /\ LastGet
  /\ Len(settled) > 1
  /\ settled[2].call.op = "updateUser"
  /\ Succeeded(settled[2])
  /\ "phoneNumber" \in DOMAIN settled[2].call.updates
  /\ requests[1].userId = settled[2].call.userId
  /\ settled[1].value[1].user.phoneNumber = settled[2].call.updates.phoneNumber
  /\ requests[1].user.phoneNumber # settled[2].call.updates.phoneNumber

\* The statuses a request may move to from a status that is not terminal.
AllowedNext(status) ==
  CASE status = "PENDING" -> {"APPROVED", "REJECTED", "CANCELLED"}
    [] status = "APPROVED" -> {"CHECKED_OUT", "RETURNED"}
    [] status = "CHECKED_OUT" -> {"RETURNED"}
    [] OTHER -> {}

\* C21: in every step, a request whose status is not terminal and whose
\* status changes moves along an allowed edge: from PENDING to APPROVED,
\* REJECTED or CANCELLED, from APPROVED to CHECKED_OUT or RETURNED, from
\* CHECKED_OUT to RETURNED.
C21_StatusFollowsEdges ==
  [][\A i \in 1..Len(requests) :
       LET was == requests[i].status
           is == requests'[i + Len(requests') - Len(requests)].status
       IN (was \notin TerminalStatuses /\ is # was) => is \in AllowedNext(was)]_vars

\* C22: in every state a request whose gateVerified is true has status
\* APPROVED, CHECKED_OUT or RETURNED.
C22_VerifiedOnlyWhenExitEligible ==
  \A i \in 1..Len(requests) :
    requests[i].gateVerified
      => requests[i].status \in {"APPROVED", "CHECKED_OUT", "RETURNED"}

\* C23: after a successful decision on a PENDING request, made for an
\* administrator, exactly one of the two decision records is set: approvedAt
\* with approvedBy, or rejectionReason.
C23_OneDecisionRecord ==
  (/\ LastOn("updateRequestStatus")
   /\ Succeeded(settled[1])
   /\ ByAdmin(settled[1])
   /\ settled[1].before.status = "PENDING")
  => LET r == Req(settled[1].call.reqId)
         approval == r.approvedAt # Undefined /\ r.approvedBy # Undefined
         rejection == r.rejectionReason # Undefined
     IN approval # rejection

\* C24: a rejection (of a PENDING request, for an administrator) whose
\* reason is missing or empty fails, and the request is PENDING with no
\* rejectionReason afterwards.
C24_RejectNeedsReason ==
  (/\ LastOn("updateRequestStatus")
   /\ settled[1].call.status = "REJECTED"
   /\ settled[1].call.reason \in {Undefined, ""}
   /\ ByAdmin(settled[1])
   /\ settled[1].before.status = "PENDING")
  => /\ ~Succeeded(settled[1])
     /\ Req(settled[1].call.reqId).status = "PENDING"
     /\ Req(settled[1].call.reqId).rejectionReason = Undefined

\* C25: a step in which addDeployment completes for asset ids of which one
\* is the id of an asset that is not AVAILABLE is a failure of the call and
\* leaves assets and deployments as they were.
C25_DeployNeedsAvailableAssets ==
  [][(/\ Len(settled') = Len(settled) + 1
      /\ settled'[1].call.op = "addDeployment"
      /\ \E a \in 1..Len(assets) :
           /\ assets[a].id \in Range(settled'[1].call.assetIds)
           /\ assets[a].status # "AVAILABLE")
     => /\ settled'[1].outcome # "ok"
        /\ assets' = assets
        /\ deployments' = deployments]_vars

\* The status of the asset with this id.
StatusOf(assetId) == assets[FindIndex(assets, assetId)].status

\* C26: in every state every asset that a deployment holds has status
\* DEPLOYED, and in every step an asset whose status is DEPLOYED keeps it.
C26_DeployedIsPermanent ==
  /\ [](\A id \in DeployedIds : StatusOf(id) = "DEPLOYED")
  /\ [][\A a \in 1..Len(assets) :
          assets[a].status = "DEPLOYED" => assets'[a].status = "DEPLOYED"]_vars

\* The operations that submit, decide, cancel, verify and deny.
WorkflowOps ==
  {"createRequest", "updateRequestStatus", "cancelRequest", "verifyGatePass",
   "reportGateIssue"}

\* C27: a step in which createRequest, updateRequestStatus, cancelRequest,
\* verifyGatePass or reportGateIssue completes leaves the status of every
\* asset as it was.
C27_WorkflowLeavesAssets ==
  [][(Len(settled') = Len(settled) + 1 /\ settled'[1].call.op \in WorkflowOps)
       => /\ Len(assets') = Len(assets)
          /\ \A a \in 1..Len(assets) :
               /\ assets'[a].id = assets[a].id
               /\ assets'[a].status = assets[a].status]_vars

\* C27's case: a request was approved and then verified at the gate, and
\* its assets have the status they had.
C27_VerifiedWithAssetsAsBefore ==
  /\ Len(settled) > 1
  /\ LastOn("verifyGatePass")
  /\ Succeeded(settled[1])
  /\ settled[2].call.op = "updateRequestStatus"
  /\ settled[2].call.reqId = settled[1].call.reqId
  /\ Succeeded(settled[2])
  /\ \A id \in Range(Req(settled[1].call.reqId).itemIds) :
       StatusOf(id) = "AVAILABLE"

\* The latest call to have completed is a lookup at the gate.
LastSearch == Len(settled) > 0 /\ settled[1].call.op = "handleSearch"

C29_ItemIdsAreASetOfAssets ==
  \A i \in 1..Len(requests) :
    LET ids == requests[i].itemIds
        items == requests[i].items
    IN /\ Len(ids) > 0
       /\ \A j, k \in 1..Len(ids) : j # k => ids[j] # ids[k]
       /\ \A k \in 1..Len(ids) : \E a \in 1..Len(assets) : assets[a].id = ids[k]
       /\ Len(items) = Len(ids)
       /\ {items[k].id : k \in 1..Len(items)} = Range(ids)

\* The ids of the users whose role is ADMIN now.
AdminAudience == {users[u].id : u \in {v \in 1..Len(users) : users[v].role = "ADMIN"}}

\* C30: after a successful verifyGatePass, the notifications hold one about
\* the verification, created by that call, for the request's user and for
\* every user whose role is ADMIN.
C30_VerifyNotifiesAdminAudience ==
  (LastOn("verifyGatePass") /\ Succeeded(settled[1]))
  => \A target \in {settled[1].before.userId} \cup AdminAudience :
       \E n \in 1..Len(notifications) :
         /\ notifications[n].userId = target
         /\ notifications[n].createdAt = ISO(now)
         /\ notifications[n].message
              \in {"Gate Pass Verified. You may now take the items.",
                   "Gate verified by Guard for Request #"
                     \o settled[1].call.reqId}

\* C35: in every step (a decision made for someone who is no administrator
\* set aside) a request that has a gatePassCode keeps that code.
C35_CodeNeverChanges ==
  [][(Len(settled') = Len(settled) + 1
        /\ (settled'[1].call.op = "updateRequestStatus"
              => RoleOf(settled'[1].call.adminId) = "ADMIN"))
     => \A i \in 1..Len(requests) :
          requests[i].gatePassCode # Undefined
            => requests'[i + Len(requests') - Len(requests)].gatePassCode
                 = requests[i].gatePassCode]_vars

\* C36: in every state no two stored requests have the same id.
C36_RequestIdsAreUnique ==
  \A i, j \in 1..Len(requests) : i # j => requests[i].id # requests[j].id

\* C38: in every state a request has an actualReturnDate exactly if its
\* status is RETURNED.
C38_ReturnDateIffReturned ==
  \A i \in 1..Len(requests) :
    requests[i].actualReturnDate # Undefined <=> requests[i].status = "RETURNED"

\* C34: every call that was made completes, with a result or with an error,
\* however many calls are in flight at once: once n calls were made, n calls
\* come to be settled, each fulfilled or rejected with an Error's message.
C34_EveryCallCompletes ==
  \A n \in 1..MaxCalls :
    (invoked >= n)
      ~> (/\ Len(settled) >= n
          /\ \A i \in 1..Len(settled) :
               settled[i].outcome
                 \in {"ok", "User not found", "Request not found",
                      "Cannot verify gate pass for unapproved requests"})

\* Two calls were in flight together and both have completed, one with a
\* result and one with an error.
C34_BothSettled ==
  /\ Len(settled) = 2
  /\ invoked = 2
  /\ settled[1].outcome # "ok"
  /\ settled[2].outcome = "ok"

\* C40: activeRequests is never negative and is the number of calls in
\* flight; what the subscribed listener was last called with is true exactly
\* if activeRequests is above zero; and a listener that was told true is
\* told false (unless it unsubscribes first).
C40_CounterAndListener ==
  /\ [](/\ activeRequests >= 0
        /\ activeRequests = BagCardinality(inflight)
        /\ loadingListener # Undefined => loading = (activeRequests > 0))
  /\ (loadingListener # Undefined /\ loading)
       ~> (loadingListener = Undefined \/ (~loading /\ activeRequests = 0))

\* The listener is subscribed and shows loading while one call has completed
\* and another is still in flight.
C40_StillLoadingAfterOne ==
  /\ loadingListener # Undefined
  /\ loading
  /\ activeRequests = 1
  /\ Len(settled) = 1

\* C31: in every step the notifications stored before are all still stored,
\* in the same order behind those the step created, each unchanged except
\* that its read flag may have gone from false to true.
C31_NotificationsAppendOnly ==
  [][/\ Len(notifications') >= Len(notifications)
     /\ \A i \in 1..Len(notifications) :
          LET kept == notifications'[i + Len(notifications')
                                       - Len(notifications)]
          IN /\ [kept EXCEPT !.read = notifications[i].read]
                  = notifications[i]
             /\ notifications[i].read => kept.read]_vars

\* A notification that was marked as read is still stored, read, behind
\* notifications created after it that are unread.
C31_ReadBehindNewer ==
  /\ Len(notifications) = 4
  /\ notifications[3].read
  /\ ~notifications[1].read

\* C37: in every state no two stored notifications have the same id.
C37_NotificationIdsAreUnique ==
  \A i, j \in 1..Len(notifications) :
    i # j => notifications[i].id # notifications[j].id

\* C39: in every state with a session, the stored session user is the
\* record the users table holds for that id.
C39_SessionIsCurrentRecord ==
  session # NoSession => session = users[FindUser(session.id)]

\* C33: in every state no two assets have the same serial number.
C33_SerialNumbersAreUnique ==
  \A i, j \in 1..Len(assets) :
    i # j => assets[i].serialNumber # assets[j].serialNumber

====
